---- MODULE Spec2Model ----
(***************************************************************************)
(* Model of the generation graph store (apps/web/src/stores/flowStore.ts)  *)
(* and of the image blob cache (apps/web/src/lib/imageBlobStore.ts).       *)
(*                                                                         *)
(* The graph store is a zustand store: every action body runs to its end   *)
(* on the single event loop and publishes its result with one set(), so    *)
(* each store action is one step of the model.  The blob cache functions   *)
(* are async: they suspend at every await of an IndexedDB request, and     *)
(* each such request is a transaction of its own (the idb shortcuts        *)
(* db.put / db.get / db.delete / db.count / db.getAll / db.clear), so one  *)
(* step of the model is one IndexedDB transaction together with the        *)
(* synchronous code that follows it up to the next await.  Calls in        *)
(* flight are the elements of `tasks`; any of them may take the next step. *)
(***************************************************************************)
EXTENDS Integers, Sequences, FiniteSets, TLC

VARIABLES
    configNodes,        \* flowStore state: Node<ConfigData>[]
    imageNodes,         \* flowStore state: Node<ImageData>[]
    previewConfig,      \* flowStore state: ConfigData | null
    editingConfigId,    \* flowStore state: string | null
    isEditingModified,  \* flowStore state: boolean
    lightboxImageId,    \* flowStore state: string | null
    storageLimitState,  \* flowStore state: StorageLimitState | null
    nodeIdCounter,      \* flowStore state: number
    blobs,              \* IndexedDB object store 'blobs': key -> Blob (its size)
    meta,               \* IndexedDB object store 'meta': id -> BlobMeta
    tasks,              \* async calls in flight, each with its position
    now,                \* the last value Date.now() returned
    failuresLeft,       \* IndexedDB requests that may still fail
    lastOp              \* history: the operation the last step performed

graphVars == <<configNodes, imageNodes, previewConfig, editingConfigId,
               isEditingModified, lightboxImageId, storageLimitState,
               nodeIdCounter>>
cacheVars == <<blobs, meta>>
vars == <<configNodes, imageNodes, previewConfig, editingConfigId,
          isEditingModified, lightboxImageId, storageLimitState,
          nodeIdCounter, blobs, meta, tasks, now, failuresLeft, lastOp>>

(***************************************************************************)
(* Bounds of the model.                                                    *)
(***************************************************************************)
\* nodeIdCounter never exceeds this (confirmConfig is not taken beyond it)
MaxCounter == 4
\* configuration nodes present at the same time (confirmConfig is not taken beyond it)
MaxConfigs == 2
\* Date.now() returns 0..MaxTime
MaxTime == 1
\* async calls in flight at the same time
MaxTasks == 2
\* IndexedDB requests that fail in one behaviour with failures
MaxFailures == 1

\* null (or undefined) where an id, a record or a number is expected
NULL == <<>>
\* undefined where a string is expected (imageUrl, duration, error)
UNDEF == "undefined"

(***************************************************************************)
(* flowStore.ts: layout constants                                          *)
(***************************************************************************)
FIRST_CONFIG_X == 100
FIRST_CONFIG_Y == 100
CONFIG_SPACING == 350
IMAGE_OFFSET_Y == 220
IMAGE_SPACING_Y == 280

(***************************************************************************)
(* Helpers on sequences (Array.prototype.filter / map / find / some).      *)
(***************************************************************************)
RECURSIVE SelectSeqBy(_, _)
\* s.filter(keep), with keep given as the set of kept elements
SelectSeqBy(s, keep) ==
    IF s = <<>> THEN <<>>
    ELSE IF Head(s) \in keep
         THEN <<Head(s)>> \o SelectSeqBy(Tail(s), keep)
         ELSE SelectSeqBy(Tail(s), keep)

Range(s) == {s[i] : i \in DOMAIN s}

\* the template literals `config-${n}`, `image-${n}`, `preview-${n}`
NodeId(prefix, n) == <<prefix, n>>

\* Date.now(): the clock never runs backwards and is read as 0..MaxTime
DateNow == now..MaxTime

\* state.configNodes.find((n) => n.id === configId): index of the first match, 0 if none
FindConfig(configId) ==
    IF \E i \in DOMAIN configNodes : configNodes[i].id = configId
    THEN CHOOSE i \in DOMAIN configNodes :
            /\ configNodes[i].id = configId
            /\ \A j \in 1..(i - 1) : configNodes[j].id # configId
    ELSE 0

\* variant: the lane is taken from the id counter instead of the node count
getNextConfigPosition_ByCounter ==
    [x |-> FIRST_CONFIG_X + nodeIdCounter * CONFIG_SPACING,
     y |-> FIRST_CONFIG_Y]

\* getNextConfigPosition
getNextConfigPosition ==
    [x |-> FIRST_CONFIG_X + Len(configNodes) * CONFIG_SPACING,
     y |-> FIRST_CONFIG_Y]

\* variant: the view leaves the preview out
getAllNodes_NoPreview ==
    configNodes \o imageNodes

\* getAllNodes: the configuration nodes, the image nodes and, when there is a
\* preview, a node for it at getNextConfigPosition()
getAllNodes ==
    configNodes \o imageNodes \o
        (IF previewConfig # NULL
         THEN << [id |-> previewConfig.id,
                  position |-> getNextConfigPosition,
                  data |-> previewConfig] >>
         ELSE << >>)

\* variant: the edges run from the image to its configuration
getAllEdges_Reversed ==
    [i \in DOMAIN imageNodes |->
        [id |-> <<"edge", imageNodes[i].data.configId, imageNodes[i].id>>,
         source |-> imageNodes[i].id,
         target |-> imageNodes[i].data.configId]]

\* getAllEdges: one edge per image node, from its configId to it
getAllEdges ==
    [i \in DOMAIN imageNodes |->
        [id |-> <<"edge", imageNodes[i].data.configId, imageNodes[i].id>>,
         source |-> imageNodes[i].data.configId,
         target |-> imageNodes[i].id]]

(***************************************************************************)
(* Inputs of the model.                                                    *)
(***************************************************************************)
\* PreviewConfigInput values the UI passes to setPreviewConfig
Drafts ==
    { [prompt |-> "cat", width |-> 512,  height |-> 512, batchCount |-> 3, seed |-> 10],
      [prompt |-> "dog", width |-> 1024, height |-> 768, batchCount |-> 2, seed |-> 0],
      [prompt |-> "cat", width |-> 512,  height |-> 768, batchCount |-> 1, seed |-> 41],
      [prompt |-> "owl", width |-> 768,  height |-> 512, batchCount |-> 0, seed |-> 7] }

\* positions a drag reports to updateConfigPosition
DragPositions == { [x |-> 0, y |-> 0], [x |-> 10, y |-> 20] }

\* the blob id under which the result of image node imageId is stored
BlobIdOf(imageId) == <<"blob", imageId[2]>>

\* an async call in flight.  startCount and removals are history kept while
\* cleanupForNewBlob runs its loop: the entries present when it started and the
\* calls of removeOldestBlob that have returned true since.
NewTask(op, pc, id, ids, size, img) ==
    [op |-> op, pc |-> pc, id |-> id, ids |-> ids, size |-> size, img |-> img,
     count |-> 0, oldestId |-> NULL, read |-> NULL,
     startCount |-> 0, removals |-> 0]

\* history of the last operation: its name, its argument, what it returned
Op(op, arg, ret) == [op |-> op, arg |-> arg, ret |-> ret]

(***************************************************************************)
(* flowStore.ts: the store's actions                                       *)
(***************************************************************************)
setPreviewConfig(config) ==
    /\ IF config = NULL
       THEN /\ previewConfig' = NULL
            /\ now' = now
       ELSE \E t \in DateNow :
            /\ previewConfig' =
                 [prompt |-> config.prompt, width |-> config.width,
                  height |-> config.height, batchCount |-> config.batchCount,
                  seed |-> config.seed,
                  id |-> NodeId("preview", nodeIdCounter + 1),
                  timestamp |-> t, isPreview |-> TRUE]
            /\ now' = t
    /\ lastOp' = Op("setPreviewConfig", config, NULL)
    /\ UNCHANGED <<configNodes, imageNodes, editingConfigId, isEditingModified,
                   lightboxImageId, storageLimitState, nodeIdCounter,
                   blobs, meta, tasks, failuresLeft>>

\* variant: every image of the batch gets the configuration's seed
NewImageNodes_SameSeed(configToConfirm, newConfigId, position) ==
    [k \in 1..configToConfirm.batchCount |->
        LET i == k - 1
            imageId == NodeId("image", nodeIdCounter + 2 + i)
        IN [id |-> imageId,
            position |-> [x |-> position.x,
                          y |-> position.y + IMAGE_OFFSET_Y + i * IMAGE_SPACING_Y],
            data |-> [id |-> imageId,
                      configId |-> newConfigId,
                      prompt |-> configToConfirm.prompt,
                      width |-> configToConfirm.width,
                      height |-> configToConfirm.height,
                      seed |-> configToConfirm.seed,
                      imageUrl |-> UNDEF,
                      imageBlobId |-> NULL,
                      duration |-> UNDEF,
                      isLoading |-> TRUE,
                      error |-> UNDEF]]]

\* variant: every image of the batch gets the id of the first one
NewImageNodes_SameId(configToConfirm, newConfigId, position) ==
    [k \in 1..configToConfirm.batchCount |->
        LET i == k - 1
            imageId == NodeId("image", nodeIdCounter + 2)
        IN [id |-> imageId,
            position |-> [x |-> position.x,
                          y |-> position.y + IMAGE_OFFSET_Y + i * IMAGE_SPACING_Y],
            data |-> [id |-> imageId,
                      configId |-> newConfigId,
                      prompt |-> configToConfirm.prompt,
                      width |-> configToConfirm.width,
                      height |-> configToConfirm.height,
                      seed |-> configToConfirm.seed + i,
                      imageUrl |-> UNDEF,
                      imageBlobId |-> NULL,
                      duration |-> UNDEF,
                      isLoading |-> TRUE,
                      error |-> UNDEF]]]

\* the image nodes confirmConfig creates (the for loop, i = 0 .. batchCount - 1)
NewImageNodes(configToConfirm, newConfigId, position) ==
    [k \in 1..configToConfirm.batchCount |->
        LET i == k - 1
            imageId == NodeId("image", nodeIdCounter + 2 + i)
        IN [id |-> imageId,
            position |-> [x |-> position.x,
                          y |-> position.y + IMAGE_OFFSET_Y + i * IMAGE_SPACING_Y],
            data |-> [id |-> imageId,
                      configId |-> newConfigId,
                      prompt |-> configToConfirm.prompt,
                      width |-> configToConfirm.width,
                      height |-> configToConfirm.height,
                      seed |-> configToConfirm.seed + i,
                      imageUrl |-> UNDEF,
                      imageBlobId |-> NULL,
                      duration |-> UNDEF,
                      isLoading |-> TRUE,
                      error |-> UNDEF]]]

\* variant: the node keeps the preview's isPreview flag
NewConfigNode_KeepsPreviewFlag(configToConfirm, newConfigId, position) ==
    [id |-> newConfigId,
     position |-> position,
     data |-> [configToConfirm EXCEPT !.id = newConfigId]]

\* the configuration node confirmConfig creates
NewConfigNode(configToConfirm, newConfigId, position) ==
    [id |-> newConfigId,
     position |-> position,
     data |-> [configToConfirm EXCEPT !.id = newConfigId, !.isPreview = FALSE]]

confirmConfig ==
    LET configToConfirm == previewConfig IN
    IF configToConfirm = NULL
    THEN /\ lastOp' = Op("confirmConfig", NULL, NULL)
         /\ UNCHANGED <<graphVars, blobs, meta, tasks, now, failuresLeft>>
    ELSE LET newConfigId == NodeId("config", nodeIdCounter + 1)
             position == getNextConfigPosition
         IN /\ nodeIdCounter + 1 + configToConfirm.batchCount <= MaxCounter
            /\ Len(configNodes) < MaxConfigs
            /\ configNodes' = Append(configNodes,
                                     NewConfigNode(configToConfirm, newConfigId, position))
            /\ imageNodes' = imageNodes \o
                                NewImageNodes(configToConfirm, newConfigId, position)
            /\ previewConfig' = NULL
            /\ editingConfigId' = NULL
            /\ isEditingModified' = FALSE
            /\ nodeIdCounter' = nodeIdCounter + 1 + configToConfirm.batchCount
            /\ lastOp' = Op("confirmConfig", configToConfirm, newConfigId)
            /\ UNCHANGED <<lightboxImageId, storageLimitState,
                           blobs, meta, tasks, now, failuresLeft>>

\* variant: loading a configuration for editing takes it out of the graph
loadConfigForEditing_TakesNode(configId) ==
    IF FindConfig(configId) = 0
    THEN /\ lastOp' = Op("loadConfigForEditing", configId, NULL)
         /\ UNCHANGED <<graphVars, blobs, meta, tasks, now, failuresLeft>>
    ELSE /\ editingConfigId' = configId
         /\ isEditingModified' = FALSE
         /\ previewConfig' = NULL
         /\ configNodes' = SelectSeqBy(configNodes,
                                       {n \in Range(configNodes) : n.id # configId})
         /\ lastOp' = Op("loadConfigForEditing", configId,
                         configNodes[FindConfig(configId)].data)
         /\ UNCHANGED <<imageNodes, lightboxImageId, storageLimitState,
                        nodeIdCounter, blobs, meta, tasks, now, failuresLeft>>

loadConfigForEditing(configId) ==
    IF FindConfig(configId) = 0
    THEN /\ lastOp' = Op("loadConfigForEditing", configId, NULL)
         /\ UNCHANGED <<graphVars, blobs, meta, tasks, now, failuresLeft>>
    ELSE /\ editingConfigId' = configId
         /\ isEditingModified' = FALSE
         /\ previewConfig' = NULL
         /\ lastOp' = Op("loadConfigForEditing", configId,
                         configNodes[FindConfig(configId)].data)
         /\ UNCHANGED <<configNodes, imageNodes, lightboxImageId, storageLimitState,
                        nodeIdCounter, blobs, meta, tasks, now, failuresLeft>>

clearEditing ==
    /\ editingConfigId' = NULL
    /\ isEditingModified' = FALSE
    /\ lastOp' = Op("clearEditing", NULL, NULL)
    /\ UNCHANGED <<configNodes, imageNodes, previewConfig, lightboxImageId,
                   storageLimitState, nodeIdCounter, blobs, meta, tasks, now, failuresLeft>>

setEditingModified(modified) ==
    /\ isEditingModified' = modified
    /\ lastOp' = Op("setEditingModified", modified, NULL)
    /\ UNCHANGED <<configNodes, imageNodes, previewConfig, editingConfigId,
                   lightboxImageId, storageLimitState, nodeIdCounter,
                   blobs, meta, tasks, now, failuresLeft>>

\* variant: every configuration node is moved to the new position
MovedConfigNodes_All(configId, x, y) ==
    [i \in DOMAIN configNodes |->
        [configNodes[i] EXCEPT !.position = [x |-> x, y |-> y]]]

\* updateConfigPosition: the nodes after the two map() calls
MovedConfigNodes(configId, x, y) ==
    [i \in DOMAIN configNodes |->
        IF configNodes[i].id = configId
        THEN [configNodes[i] EXCEPT !.position = [x |-> x, y |-> y]]
        ELSE configNodes[i]]

\* variant: the owned image nodes follow the drag horizontally only
MovedImageNodes_XOnly(configId, deltaX, deltaY) ==
    [i \in DOMAIN imageNodes |->
        IF imageNodes[i].data.configId = configId
        THEN [imageNodes[i] EXCEPT !.position =
                 [x |-> imageNodes[i].position.x + deltaX,
                  y |-> imageNodes[i].position.y]]
        ELSE imageNodes[i]]

MovedImageNodes(configId, deltaX, deltaY) ==
    [i \in DOMAIN imageNodes |->
        IF imageNodes[i].data.configId = configId
        THEN [imageNodes[i] EXCEPT !.position =
                 [x |-> imageNodes[i].position.x + deltaX,
                  y |-> imageNodes[i].position.y + deltaY]]
        ELSE imageNodes[i]]

updateConfigPosition(configId, x, y) ==
    /\ lastOp' = Op("updateConfigPosition", <<configId, x, y>>, NULL)
    /\ IF FindConfig(configId) = 0
       THEN UNCHANGED <<graphVars, blobs, meta, tasks, now, failuresLeft>>
       ELSE LET configNode == configNodes[FindConfig(configId)]
                deltaX == x - configNode.position.x
                deltaY == y - configNode.position.y
            IN /\ configNodes' = MovedConfigNodes(configId, x, y)
               /\ imageNodes' = MovedImageNodes(configId, deltaX, deltaY)
               /\ UNCHANGED <<previewConfig, editingConfigId, isEditingModified,
                              lightboxImageId, storageLimitState, nodeIdCounter,
                              blobs, meta, tasks, now, failuresLeft>>

\* variant: the result also overwrites the seed of the node
GeneratedImageNodes_ResetsSeed(imageId, url, duration, blobId) ==
    [i \in DOMAIN imageNodes |->
        IF imageNodes[i].id = imageId
        THEN [imageNodes[i] EXCEPT !.data.imageUrl = url,
                                   !.data.imageBlobId = blobId,
                                   !.data.duration = duration,
                                   !.data.seed = 0,
                                   !.data.isLoading = FALSE]
        ELSE imageNodes[i]]

\* updateImageGenerated: the image nodes after the map()
GeneratedImageNodes(imageId, url, duration, blobId) ==
    [i \in DOMAIN imageNodes |->
        IF imageNodes[i].id = imageId
        THEN [imageNodes[i] EXCEPT !.data.imageUrl = url,
                                   !.data.imageBlobId = blobId,
                                   !.data.duration = duration,
                                   !.data.isLoading = FALSE]
        ELSE imageNodes[i]]

updateImageGenerated(imageId, url, duration, blobId) ==
    /\ imageNodes' = GeneratedImageNodes(imageId, url, duration, blobId)
    /\ lastOp' = Op("updateImageGenerated", <<imageId, blobId>>, NULL)
    /\ UNCHANGED <<configNodes, previewConfig, editingConfigId, isEditingModified,
                   lightboxImageId, storageLimitState, nodeIdCounter,
                   blobs, meta, tasks, now, failuresLeft>>

\* updateImageError: the image nodes after the map()
FailedImageNodes(imageId, error) ==
    [i \in DOMAIN imageNodes |->
        IF imageNodes[i].id = imageId
        THEN [imageNodes[i] EXCEPT !.data.error = error, !.data.isLoading = FALSE]
        ELSE imageNodes[i]]

updateImageError(imageId, error) ==
    /\ imageNodes' = FailedImageNodes(imageId, error)
    /\ lastOp' = Op("updateImageError", imageId, NULL)
    /\ UNCHANGED <<configNodes, previewConfig, editingConfigId, isEditingModified,
                   lightboxImageId, storageLimitState, nodeIdCounter,
                   blobs, meta, tasks, now, failuresLeft>>

setLightboxImage(imageId) ==
    /\ lightboxImageId' = imageId
    /\ lastOp' = Op("setLightboxImage", imageId, NULL)
    /\ UNCHANGED <<configNodes, imageNodes, previewConfig, editingConfigId,
                   isEditingModified, storageLimitState, nodeIdCounter,
                   blobs, meta, tasks, now, failuresLeft>>

\* variant: the blob ids of every image node are collected, whoever owns it
DeleteConfigBlobIds_AllImages(configId) ==
    LET owned == SelectSeqBy(imageNodes,
                    {n \in Range(imageNodes) : n.data.imageBlobId # NULL})
    IN [i \in DOMAIN owned |-> owned[i].data.imageBlobId]

\* deleteConfig: the blob ids collected by filter().map(), in node order
DeleteConfigBlobIds(configId) ==
    LET owned == SelectSeqBy(imageNodes,
                    {n \in Range(imageNodes) :
                        n.data.configId = configId /\ n.data.imageBlobId # NULL})
    IN [i \in DOMAIN owned |-> owned[i].data.imageBlobId]

\* variant: splice(findIndex(...), 1), which removes the last node when the
\* id is not found (index -1)
KeptConfigNodes_SpliceAtIndex(configId) ==
    IF FindConfig(configId) = 0
    THEN SubSeq(configNodes, 1, Len(configNodes) - 1)
    ELSE SelectSeqBy(configNodes, {n \in Range(configNodes) : n.id # configId})

\* deleteConfig: the nodes kept by the two filter() calls
KeptConfigNodes(configId) ==
    SelectSeqBy(configNodes, {n \in Range(configNodes) : n.id # configId})

\* variant: the image nodes of the deleted configuration stay
KeptImageNodes_KeepsAll(configId) ==
    imageNodes

KeptImageNodes(configId) ==
    SelectSeqBy(imageNodes, {n \in Range(imageNodes) : n.data.configId # configId})

deleteConfig(configId) ==
    LET blobIds == DeleteConfigBlobIds(configId) IN
    /\ IF Len(blobIds) > 0
       THEN /\ Len(tasks) < MaxTasks
            /\ tasks' = Append(tasks, NewTask("deleteBlobs", "deleteBlobs.tx", NULL, blobIds, 0, NULL))
       ELSE tasks' = tasks
    /\ configNodes' = KeptConfigNodes(configId)
    /\ imageNodes' = KeptImageNodes(configId)
    /\ lastOp' = Op("deleteConfig", configId, blobIds)
    /\ UNCHANGED <<previewConfig, editingConfigId, isEditingModified,
                   lightboxImageId, storageLimitState, nodeIdCounter,
                   blobs, meta, now, failuresLeft>>

clearAll ==
    /\ Len(tasks) < MaxTasks
    /\ tasks' = Append(tasks, NewTask("clearAllBlobs", "clearAllBlobs.blobs", NULL, <<>>, 0, NULL))
    /\ configNodes' = <<>>
    /\ imageNodes' = <<>>
    /\ previewConfig' = NULL
    /\ editingConfigId' = NULL
    /\ isEditingModified' = FALSE
    /\ lightboxImageId' = NULL
    /\ nodeIdCounter' = 0
    /\ lastOp' = Op("clearAll", NULL, NULL)
    /\ UNCHANGED <<storageLimitState, blobs, meta, now, failuresLeft>>

(***************************************************************************)
(* imageBlobStore.ts: limits.  The ceilings are scaled down (500 entries   *)
(* and 4096 MiB in the source) so that the model reaches them, and sizes   *)
(* are counted in MiB instead of bytes.                                    *)
(***************************************************************************)
MAX_IMAGES == 2
MAX_STORAGE_MB == 3
\* sizes of the blobs the image results carry: 1..MaxBlobSize
MaxBlobSize == 2
BlobSizes == 1..MaxBlobSize

\* maxStorageBytes = STORAGE_LIMITS.MAX_STORAGE_MB * 1024 * 1024
maxStorageBytes == MAX_STORAGE_MB

(***************************************************************************)
(* The two object stores as functions, and the IndexedDB requests on them. *)
(***************************************************************************)
Put_ClearsStore(store, key, value) ==
    [k \in {key} |-> value]

Put(store, key, value) ==
    [k \in DOMAIN store \cup {key} |-> IF k = key THEN value ELSE store[k]]

Delete(store, keys) == [k \in DOMAIN store \ keys |-> store[k]]

RECURSIVE SumSizes(_, _)
\* allMeta.reduce((sum, meta) => sum + meta.size, 0)
SumSizes(store, keys) ==
    IF keys = {} THEN 0
    ELSE LET k == CHOOSE x \in keys : TRUE
         IN store[k].size + SumSizes(store, keys \ {k})

\* db.count(META_STORE)
MetaCount == Cardinality(DOMAIN meta)

\* db.getAll(META_STORE) summed
MetaTotalSize == SumSizes(meta, DOMAIN meta)

\* variant: the cursor opens on the most recently accessed entry
OldestIds_Newest ==
    {k \in DOMAIN meta :
        \A j \in DOMAIN meta : meta[k].lastAccessedAt >= meta[j].lastAccessedAt}

\* index('lastAccessedAt').openCursor(): the entries a cursor may open on first.
\* The index orders by lastAccessedAt; among equal timestamps the order is that
\* of the keys, which the callers choose, so every one of them may come first.
OldestIds ==
    {k \in DOMAIN meta :
        \A j \in DOMAIN meta : meta[k].lastAccessedAt <= meta[j].lastAccessedAt}

\* Math.round((totalSize / 1024 / 1024) * 10) / 10, in tenths of a MiB
TotalSizeMB(totalSize) == 10 * totalSize

\* variant: the size condition also refuses a candidate that fits exactly
checkStorageLimit_InclusiveSize(count, totalSize, newBlobSize) ==
    IF count >= MAX_IMAGES
    THEN [needsCleanup |-> TRUE, reason |-> "count",
          currentCount |-> count, currentSizeMB |-> TotalSizeMB(totalSize)]
    ELSE IF totalSize + newBlobSize >= maxStorageBytes
    THEN [needsCleanup |-> TRUE, reason |-> "size",
          currentCount |-> count, currentSizeMB |-> TotalSizeMB(totalSize)]
    ELSE NULL

\* checkStorageLimit, after count and totalSize have been read
checkStorageLimit(count, totalSize, newBlobSize) ==
    IF count >= MAX_IMAGES
    THEN [needsCleanup |-> TRUE, reason |-> "count",
          currentCount |-> count, currentSizeMB |-> TotalSizeMB(totalSize)]
    ELSE IF totalSize + newBlobSize > maxStorageBytes
    THEN [needsCleanup |-> TRUE, reason |-> "size",
          currentCount |-> count, currentSizeMB |-> TotalSizeMB(totalSize)]
    ELSE NULL

\* variant: the while loop never entered
CleanupLoopCondition_Never(count, totalSize, newBlobSize) ==
    FALSE

\* cleanupForNewBlob: the condition of the while loop
CleanupLoopCondition(count, totalSize, newBlobSize) ==
    count >= MAX_IMAGES \/ totalSize + newBlobSize > maxStorageBytes

(***************************************************************************)
(* Steps of the async calls in flight.                                     *)
(***************************************************************************)
RemoveAt(s, i) == [j \in 1..(Len(s) - 1) |-> IF j < i THEN s[j] ELSE s[j + 1]]

\* An IndexedDB request may fail (the catch blocks of the source) while the
\* behaviour has failures left.
MayFail == failuresLeft > 0

\* the request of this step fails
Fail == MayFail /\ failuresLeft' = failuresLeft - 1

\* the request of this step succeeds
NoFail == failuresLeft' = failuresLeft

Goto(i, pc) == tasks' = [tasks EXCEPT ![i].pc = pc]

Return(i) == tasks' = RemoveAt(tasks, i)

\* What the caller of storeBlobWithCleanup / storeBlob does with the result.
\* It is the image node component's handler, which updates the image node with
\* the blob reference on success and hands a refused store to the storage
\* governor; a failed store (null) changes nothing.
StoreResult(i, result, verdict) ==
    LET t == tasks[i] IN
    /\ Return(i)
    /\ lastOp' = Op(t.op, t.id, result)
    /\ IF result = "stored"
       THEN /\ imageNodes' = GeneratedImageNodes(t.img, "url", "1.0s", t.id)
            /\ storageLimitState' =
                 IF t.op = "confirmCleanup" THEN NULL ELSE storageLimitState
       ELSE IF result = "cleanup_needed"
       THEN /\ storageLimitState' =
                 [needsCleanup |-> verdict.needsCleanup, reason |-> verdict.reason,
                  currentCount |-> verdict.currentCount,
                  currentSizeMB |-> verdict.currentSizeMB,
                  pendingImageId |-> t.img, pendingBlob |-> t.size]
            /\ imageNodes' = imageNodes
       ELSE /\ storageLimitState' =
                 IF t.op = "confirmCleanup" THEN NULL ELSE storageLimitState
            /\ imageNodes' = imageNodes
    /\ UNCHANGED <<configNodes, previewConfig, editingConfigId, isEditingModified,
                   lightboxImageId, nodeIdCounter>>

\* getBlobCount: await db.count(META_STORE), 0 when it throws
getBlobCount(i) ==
    /\ tasks[i].pc = "getBlobCount"
    /\ \/ /\ NoFail
          /\ tasks' = [tasks EXCEPT ![i].count = MetaCount,
                                    ![i].pc = "getTotalStorageSize"]
       \/ /\ Fail
          /\ tasks' = [tasks EXCEPT ![i].count = 0, ![i].pc = "getTotalStorageSize"]
    /\ lastOp' = Op(tasks[i].op, "getBlobCount", NULL)
    /\ UNCHANGED <<graphVars, blobs, meta, now>>

\* getTotalStorageSize: await db.getAll(META_STORE), 0 when it throws; then the
\* synchronous code of the caller up to its next await.  The count read before
\* is not used after that, and the task forgets it.
getTotalStorageSize(i) ==
    LET t == tasks[i] IN
    /\ t.pc = "getTotalStorageSize"
    /\ \E failed \in (IF MayFail THEN {FALSE, TRUE} ELSE {FALSE}) :
       LET totalSize == IF failed THEN 0 ELSE MetaTotalSize IN
       /\ failuresLeft' = IF failed THEN failuresLeft - 1 ELSE failuresLeft
       /\ IF t.op = "storeBlobWithCleanup"
             THEN LET limitCheck == checkStorageLimit(t.count, totalSize, t.size) IN
                  IF limitCheck # NULL
                  THEN StoreResult(i, "cleanup_needed", limitCheck)
                  ELSE /\ tasks' = [tasks EXCEPT ![i].count = 0,
                                                 ![i].pc = "storeBlob.putBlob"]
                       /\ lastOp' = Op(t.op, "getTotalStorageSize", NULL)
                       /\ UNCHANGED graphVars
             ELSE /\ tasks' = IF CleanupLoopCondition(t.count, totalSize, t.size)
                                THEN [tasks EXCEPT ![i].count = 0,
                                                   ![i].pc = "removeOldestBlob.openCursor"]
                                ELSE [tasks EXCEPT ![i].count = 0,
                                                   ![i].startCount = 0,
                                                   ![i].removals = 0,
                                                   ![i].pc = "storeBlob.putBlob"]
                  /\ lastOp' = IF CleanupLoopCondition(t.count, totalSize, t.size)
                                THEN Op(t.op, "getTotalStorageSize", NULL)
                                ELSE Op(t.op, "cleanupForNewBlob", TRUE)
                  /\ UNCHANGED graphVars
    /\ UNCHANGED <<blobs, meta, now>>

\* removeOldestBlob: await index.openCursor(); false when there is no entry or
\* when it throws, and cleanupForNewBlob then leaves its loop and returns true
removeOldestBlob(i) ==
    /\ tasks[i].pc = "removeOldestBlob.openCursor"
    /\ \/ /\ NoFail
          /\ DOMAIN meta # {}
          /\ \E oldestId \in OldestIds :
                tasks' = [tasks EXCEPT ![i].oldestId = oldestId,
                                       ![i].pc = "deleteBlob.blobs"]
          /\ lastOp' = Op(tasks[i].op, "removeOldestBlob", NULL)
       \/ /\ NoFail
          /\ DOMAIN meta = {}
          /\ tasks' = [tasks EXCEPT ![i].startCount = 0, ![i].removals = 0,
                                    ![i].pc = "storeBlob.putBlob"]
          /\ lastOp' = Op(tasks[i].op, "cleanupForNewBlob", TRUE)
       \/ /\ Fail
          /\ tasks' = [tasks EXCEPT ![i].startCount = 0, ![i].removals = 0,
                                    ![i].pc = "storeBlob.putBlob"]
          /\ lastOp' = Op(tasks[i].op, "cleanupForNewBlob", TRUE)
    /\ UNCHANGED <<graphVars, blobs, meta, now>>

\* deleteBlob: await db.delete(BLOBS_STORE, id); a throw ends deleteBlob
deleteBlob_blobs(i) ==
    /\ tasks[i].pc = "deleteBlob.blobs"
    /\ \/ /\ NoFail
          /\ blobs' = Delete(blobs, {tasks[i].oldestId})
          /\ Goto(i, "deleteBlob.meta")
       \/ /\ Fail
          /\ blobs' = blobs
          /\ tasks' = [tasks EXCEPT ![i].oldestId = NULL,
                                    ![i].removals = tasks[i].removals + 1,
                                    ![i].pc = "getBlobCount"]
    /\ lastOp' = Op(tasks[i].op, "deleteBlob", NULL)
    /\ UNCHANGED <<graphVars, meta, now>>

\* deleteBlob: await db.delete(META_STORE, id); removeOldestBlob returns true
deleteBlob_meta(i) ==
    /\ tasks[i].pc = "deleteBlob.meta"
    /\ \/ /\ NoFail
          /\ meta' = Delete(meta, {tasks[i].oldestId})
       \/ /\ Fail
          /\ meta' = meta
    /\ tasks' = [tasks EXCEPT ![i].oldestId = NULL,
                              ![i].removals = tasks[i].removals + 1,
                              ![i].pc = "getBlobCount"]
    /\ lastOp' = Op(tasks[i].op, "deleteBlob", NULL)
    /\ UNCHANGED <<graphVars, blobs, now>>

\* storeBlob: await db.put(BLOBS_STORE, blob, id); null when it throws
storeBlob_putBlob(i) ==
    /\ tasks[i].pc = "storeBlob.putBlob"
    /\ \/ /\ NoFail
          /\ blobs' = Put(blobs, tasks[i].id, tasks[i].size)
          /\ Goto(i, "storeBlob.putMeta")
          /\ lastOp' = Op(tasks[i].op, "storeBlob", NULL)
          /\ UNCHANGED graphVars
       \/ /\ Fail
          /\ blobs' = blobs
          /\ StoreResult(i, "null", NULL)
    /\ UNCHANGED <<meta, now>>

\* storeBlob: await db.put(META_STORE, meta), with the two Date.now() readings
\* taken before it; null when it throws
storeBlob_putMeta(i) ==
    /\ tasks[i].pc = "storeBlob.putMeta"
    /\ \/ \E createdAt \in DateNow : \E lastAccessedAt \in createdAt..MaxTime :
          /\ NoFail
          /\ meta' = Put(meta, tasks[i].id,
                         [id |-> tasks[i].id, size |-> tasks[i].size,
                          createdAt |-> createdAt, lastAccessedAt |-> lastAccessedAt])
          /\ now' = lastAccessedAt
          /\ StoreResult(i, "stored", NULL)
       \/ /\ Fail
          /\ meta' = meta
          /\ now' = now
          /\ StoreResult(i, "null", NULL)
    /\ UNCHANGED blobs

\* getBlob: meta.lastAccessedAt = Date.now() on the record read
TouchMeta_KeepsAccessTime(m, t) ==
    m

TouchMeta(m, t) ==
    [m EXCEPT !.lastAccessedAt = t]

\* getBlob: await db.get(BLOBS_STORE, id)
getBlob_blob(i) ==
    /\ tasks[i].pc = "getBlob.blob"
    /\ \/ /\ NoFail
          /\ IF tasks[i].id \in DOMAIN blobs
             THEN /\ Goto(i, "getBlob.meta")
                  /\ lastOp' = Op("getBlob", tasks[i].id, NULL)
             ELSE /\ Return(i)
                  /\ lastOp' = Op("getBlob", tasks[i].id, "null")
       \/ /\ Fail
          /\ Return(i)
          /\ lastOp' = Op("getBlob", tasks[i].id, "null")
    /\ UNCHANGED <<graphVars, blobs, meta, now>>

\* getBlob: await db.get(META_STORE, id), then meta.lastAccessedAt = Date.now()
getBlob_meta(i) ==
    /\ tasks[i].pc = "getBlob.meta"
    /\ \/ /\ NoFail
          /\ IF tasks[i].id \in DOMAIN meta
             THEN \E t \in DateNow :
                  /\ tasks' = [tasks EXCEPT
                                 ![i].read = TouchMeta(meta[tasks[i].id], t),
                                 ![i].pc = "getBlob.putMeta"]
                  /\ now' = t
                  /\ lastOp' = Op("getBlob", tasks[i].id, NULL)
             ELSE /\ Return(i)
                  /\ now' = now
                  /\ lastOp' = Op("getBlob", tasks[i].id, "blob")
       \/ /\ Fail
          /\ Return(i)
          /\ now' = now
          /\ lastOp' = Op("getBlob", tasks[i].id, "null")
    /\ UNCHANGED <<graphVars, blobs, meta>>

\* getBlob: await db.put(META_STORE, meta) of the record read before
getBlob_putMeta(i) ==
    /\ tasks[i].pc = "getBlob.putMeta"
    /\ \/ /\ NoFail
          /\ meta' = Put(meta, tasks[i].id, tasks[i].read)
          /\ lastOp' = Op("getBlob", tasks[i].id, "blob")
       \/ /\ Fail
          /\ meta' = meta
          /\ lastOp' = Op("getBlob", tasks[i].id, "null")
    /\ Return(i)
    /\ UNCHANGED <<graphVars, blobs, now>>

\* variant: the deletes of the blobs store and of the meta store are not in
\* one transaction, and only the first is done
deleteBlobs_BlobsOnly(i) ==
    /\ tasks[i].pc = "deleteBlobs.tx"
    /\ NoFail
    /\ blobs' = Delete(blobs, Range(tasks[i].ids))
    /\ meta' = meta
    /\ Return(i)
    /\ lastOp' = Op("deleteBlobs", tasks[i].ids, Range(tasks[i].ids) \cap DOMAIN blobs)
    /\ UNCHANGED <<graphVars, now>>

\* deleteBlobs: one readwrite transaction over both stores, committed or
\* aborted; lastOp keeps the listed ids that were stored when it ran
deleteBlobs(i) ==
    /\ tasks[i].pc = "deleteBlobs.tx"
    /\ \/ /\ NoFail
          /\ blobs' = Delete(blobs, Range(tasks[i].ids))
          /\ meta' = Delete(meta, Range(tasks[i].ids))
       \/ /\ Fail
          /\ UNCHANGED <<blobs, meta>>
    /\ Return(i)
    /\ lastOp' = Op("deleteBlobs", tasks[i].ids, Range(tasks[i].ids) \cap DOMAIN blobs)
    /\ UNCHANGED <<graphVars, now>>

\* clearAllBlobs: await db.clear(BLOBS_STORE); a throw ends clearAllBlobs
clearAllBlobs_blobs(i) ==
    /\ tasks[i].pc = "clearAllBlobs.blobs"
    /\ \/ /\ NoFail
          /\ blobs' = <<>>
          /\ Goto(i, "clearAllBlobs.meta")
       \/ /\ Fail
          /\ blobs' = blobs
          /\ Return(i)
    /\ lastOp' = Op("clearAllBlobs", NULL, NULL)
    /\ UNCHANGED <<graphVars, meta, now>>

\* clearAllBlobs: await db.clear(META_STORE)
clearAllBlobs_meta_KeepsMeta(i) ==
    /\ tasks[i].pc = "clearAllBlobs.meta"
    /\ meta' = meta
    /\ Return(i)
    /\ lastOp' = Op("clearAllBlobs", NULL, NULL)
    /\ UNCHANGED <<graphVars, blobs, now, failuresLeft>>

clearAllBlobs_meta(i) ==
    /\ tasks[i].pc = "clearAllBlobs.meta"
    /\ \/ /\ NoFail
          /\ meta' = <<>>
       \/ /\ Fail
          /\ meta' = meta
    /\ Return(i)
    /\ lastOp' = Op("clearAllBlobs", NULL, NULL)
    /\ UNCHANGED <<graphVars, blobs, now>>

(***************************************************************************)
(* The callers of the blob cache.                                          *)
(***************************************************************************)
HasTaskFor(imageId) == \E i \in DOMAIN tasks : tasks[i].img = imageId

\* The image node component's handler of a generation result: the result of a
\* loading image node arrives with its bytes and is handed to
\* storeBlobWithCleanup under the image's blob id.
imageResult(imageId, size) ==
    /\ \E n \in Range(imageNodes) : n.id = imageId /\ n.data.isLoading
    /\ ~HasTaskFor(imageId)
    /\ IF storageLimitState = NULL THEN TRUE
       ELSE storageLimitState.pendingImageId # imageId
    /\ Len(tasks) < MaxTasks
    /\ tasks' = Append(tasks, NewTask("storeBlobWithCleanup", "getBlobCount",
                                      BlobIdOf(imageId), <<>>, size, imageId))
    /\ lastOp' = Op("imageResult", imageId, NULL)
    /\ UNCHANGED <<graphVars, blobs, meta, now, failuresLeft>>

\* Storage governor, "confirm cleanup": cleanupForNewBlob for the pending blob's
\* size, then the pending store, then back to idle (in StoreResult).
confirmCleanup ==
    /\ storageLimitState # NULL
    /\ ~HasTaskFor(storageLimitState.pendingImageId)
    /\ Len(tasks) < MaxTasks
    /\ tasks' = Append(tasks,
                       [NewTask("confirmCleanup", "getBlobCount",
                                BlobIdOf(storageLimitState.pendingImageId), <<>>,
                                storageLimitState.pendingBlob,
                                storageLimitState.pendingImageId)
                           EXCEPT !.startCount = MetaCount])
    /\ lastOp' = Op("confirmCleanup", storageLimitState.pendingImageId, NULL)
    /\ UNCHANGED <<graphVars, blobs, meta, now, failuresLeft>>

\* variant: the storage-limit state survives the cancel
clearStorageLimitState_KeepsPending ==
    /\ storageLimitState' = storageLimitState
    /\ lastOp' = Op("clearStorageLimitState",
                    IF storageLimitState = NULL THEN NULL
                    ELSE storageLimitState.pendingImageId, NULL)
    /\ UNCHANGED <<configNodes, imageNodes, previewConfig, editingConfigId,
                   isEditingModified, lightboxImageId, nodeIdCounter,
                   blobs, meta, tasks, now, failuresLeft>>

\* clearStorageLimitState (the governor's "cancel"); lastOp keeps the image
\* whose store was pending, if any
clearStorageLimitState ==
    /\ storageLimitState' = NULL
    /\ lastOp' = Op("clearStorageLimitState",
                    IF storageLimitState = NULL THEN NULL
                    ELSE storageLimitState.pendingImageId, NULL)
    /\ UNCHANGED <<configNodes, imageNodes, previewConfig, editingConfigId,
                   isEditingModified, lightboxImageId, nodeIdCounter,
                   blobs, meta, tasks, now, failuresLeft>>

\* Storage governor, "download all then retry": once the export is confirmed
\* the pending store is attempted again under admission; nothing is evicted.
downloadAllRetry ==
    /\ storageLimitState # NULL
    /\ ~HasTaskFor(storageLimitState.pendingImageId)
    /\ Len(tasks) < MaxTasks
    /\ tasks' = Append(tasks, NewTask("storeBlobWithCleanup", "getBlobCount",
                                      BlobIdOf(storageLimitState.pendingImageId), <<>>,
                                      storageLimitState.pendingBlob,
                                      storageLimitState.pendingImageId))
    /\ storageLimitState' = NULL
    /\ lastOp' = Op("downloadAllRetry", storageLimitState.pendingImageId, NULL)
    /\ UNCHANGED <<configNodes, imageNodes, previewConfig, editingConfigId,
                   isEditingModified, lightboxImageId, nodeIdCounter,
                   blobs, meta, now, failuresLeft>>

\* Lightbox: the effect that loads the open image (and handleDownload) calls
\* getBlob(imageBlobId) for the image node the lightbox shows
lightboxGetBlob ==
    /\ Len(tasks) < MaxTasks
    /\ \E n \in Range(imageNodes) :
          /\ n.id = lightboxImageId
          /\ n.data.imageBlobId # NULL
          /\ tasks' = Append(tasks, NewTask("getBlob", "getBlob.blob",
                                            n.data.imageBlobId, <<>>, 0, NULL))
          /\ lastOp' = Op("lightboxGetBlob", n.data.imageBlobId, NULL)
    /\ UNCHANGED <<graphVars, blobs, meta, now, failuresLeft>>

(***************************************************************************)
(* Specifications.                                                         *)
(***************************************************************************)
InitStore ==
    /\ configNodes = <<>>
    /\ imageNodes = <<>>
    /\ previewConfig = NULL
    /\ editingConfigId = NULL
    /\ isEditingModified = FALSE
    /\ lightboxImageId = NULL
    /\ storageLimitState = NULL
    /\ nodeIdCounter = 0
    /\ blobs = <<>>
    /\ meta = <<>>
    /\ tasks = <<>>
    /\ now = 0
    /\ lastOp = Op("init", NULL, NULL)

\* every IndexedDB request succeeds
Init == InitStore /\ failuresLeft = 0

\* up to MaxFailures IndexedDB requests fail
InitFail == InitStore /\ failuresLeft = MaxFailures

\* ids a caller may pass: those of the nodes present, and one that names no node
ConfigIdInputs == {n.id : n \in Range(configNodes)} \cup {NodeId("config", 0)}
ImageIdInputs == {n.id : n \in Range(imageNodes)} \cup {NodeId("image", 0)}

\* blob references a caller of updateImageGenerated may pass for an image
BlobRefs(imageId) == {NULL, BlobIdOf(imageId)}

\* the purge calls the graph store starts (deleteBlobs, clearAllBlobs)
PurgeStep ==
    \E i \in DOMAIN tasks :
        \/ deleteBlobs(i)
        \/ clearAllBlobs_blobs(i)
        \/ clearAllBlobs_meta(i)

\* The layout of the node graph: previews, confirmation, drags, deletion.
NextLayout ==
    \/ \E config \in Drafts \cup {NULL} : setPreviewConfig(config)
    \/ confirmConfig
    \/ \E configId \in ConfigIdInputs : \E p \in DragPositions :
          updateConfigPosition(configId, p.x, p.y)
    \/ \E configId \in ConfigIdInputs : deleteConfig(configId)
    \/ clearAll
    \/ PurgeStep

SpecLayout == Init /\ [][NextLayout]_vars

\* The content of the node graph: previews, confirmation, results, deletion.
NextGraph ==
    \/ \E config \in Drafts \cup {NULL} : setPreviewConfig(config)
    \/ confirmConfig
    \/ \E imageId \in ImageIdInputs : \E blobId \in BlobRefs(imageId) :
          updateImageGenerated(imageId, "url", "1.0s", blobId)
    \/ \E configId \in ConfigIdInputs : deleteConfig(configId)
    \/ clearAll
    \/ PurgeStep

SpecGraph == Init /\ [][NextGraph]_vars

\* The transient state of the store: editing, lightbox, image errors.
NextEdit ==
    \/ \E configId \in ConfigIdInputs : loadConfigForEditing(configId)
    \/ clearEditing
    \/ \E modified \in BOOLEAN : setEditingModified(modified)
    \/ \E imageId \in ImageIdInputs : updateImageError(imageId, "Failed to generate")
    \/ \E imageId \in ImageIdInputs \cup {NULL} : setLightboxImage(imageId)

\* The graph with its transient state: previews, confirmation, editing,
\* image errors, the lightbox, deletion.
NextEditing ==
    \/ \E config \in Drafts \cup {NULL} : setPreviewConfig(config)
    \/ confirmConfig
    \/ \E configId \in ConfigIdInputs : deleteConfig(configId)
    \/ NextEdit

SpecEdit == Init /\ [][NextEditing]_vars

\* the draft confirmed while the blob cache is exercised
CacheDrafts == {d \in Drafts : d.batchCount = 3}

\* The steps of the calls that store and evict.
NextStore ==
    \/ \E i \in DOMAIN tasks : getBlobCount(i)
    \/ \E i \in DOMAIN tasks : getTotalStorageSize(i)
    \/ \E i \in DOMAIN tasks : storeBlob_putBlob(i)
    \/ \E i \in DOMAIN tasks : storeBlob_putMeta(i)

NextEvict ==
    \/ \E i \in DOMAIN tasks : removeOldestBlob(i)
    \/ \E i \in DOMAIN tasks : deleteBlob_blobs(i)
    \/ \E i \in DOMAIN tasks : deleteBlob_meta(i)

\* The graph store together with the blob cache, one cache call at a time:
\* results stored under admission, confirmed cleanup, deletion and purge.
NextCache ==
    \/ \E config \in CacheDrafts : setPreviewConfig(config)
    \/ confirmConfig
    \/ \E imageId \in ImageIdInputs : \E size \in BlobSizes :
          imageResult(imageId, size) /\ Len(tasks') <= 1
    \/ confirmCleanup /\ Len(tasks') <= 1
    \/ clearStorageLimitState
    \/ \E configId \in ConfigIdInputs : deleteConfig(configId) /\ Len(tasks') <= 1
    \/ clearAll /\ Len(tasks') <= 1
    \/ PurgeStep
    \/ NextStore
    \/ NextEvict

SpecCache == Init /\ [][NextCache]_vars

\* The results of one batch arriving together: concurrent admissions.
NextRace ==
    \/ \E config \in CacheDrafts : setPreviewConfig(config)
    \/ confirmConfig
    \/ \E imageId \in ImageIdInputs : \E size \in BlobSizes : imageResult(imageId, size)
    \/ NextStore

SpecRace == Init /\ [][NextRace]_vars

\* a blob that alone exceeds the size ceiling
OversizeBlob == MAX_STORAGE_MB + 1

\* Results of any size, one that alone exceeds the ceiling included, stored
\* under admission and through the confirmed cleanup, one call at a time.
NextOversize ==
    \/ \E config \in CacheDrafts : setPreviewConfig(config)
    \/ confirmConfig
    \/ \E imageId \in ImageIdInputs : \E size \in BlobSizes \cup {OversizeBlob} :
          imageResult(imageId, size) /\ Len(tasks') <= 1
    \/ confirmCleanup /\ Len(tasks') <= 1
    \/ NextStore
    \/ NextEvict

SpecOversize == Init /\ [][NextOversize]_vars

\* Results stored under admission and through the confirmed cleanup, one call
\* at a time, with IndexedDB requests that may fail.
NextFail ==
    \/ \E config \in CacheDrafts : setPreviewConfig(config)
    \/ confirmConfig
    \/ \E imageId \in ImageIdInputs : \E size \in BlobSizes :
          imageResult(imageId, size) /\ Len(tasks') <= 1
    \/ confirmCleanup /\ Len(tasks') <= 1
    \/ NextStore
    \/ NextEvict

SpecFail == InitFail /\ [][NextFail]_vars

\* Results stored, evicted on confirmation and read back by the lightbox, one
\* call at a time.
NextGetting ==
    \/ \E config \in CacheDrafts : setPreviewConfig(config)
    \/ confirmConfig
    \/ \E imageId \in ImageIdInputs : \E size \in BlobSizes :
          imageResult(imageId, size) /\ Len(tasks') <= 1
    \/ confirmCleanup /\ Len(tasks') <= 1
    \/ NextStore
    \/ NextEvict
    \/ \E imageId \in ImageIdInputs : setLightboxImage(imageId)
    \/ lightboxGetBlob /\ Len(tasks') <= 1
    \/ \E i \in DOMAIN tasks : getBlob_blob(i)
    \/ \E i \in DOMAIN tasks : getBlob_meta(i)
    \/ \E i \in DOMAIN tasks : getBlob_putMeta(i)

SpecGet == Init /\ [][NextGetting]_vars

\* The storage governor over the blob cache, one cache call at a time: a
\* refused store, then confirm, cancel or download-all-then-retry.
NextGovern ==
    \/ \E config \in CacheDrafts : setPreviewConfig(config)
    \/ confirmConfig
    \/ \E imageId \in ImageIdInputs : \E size \in BlobSizes :
          imageResult(imageId, size) /\ Len(tasks') <= 1
    \/ confirmCleanup /\ Len(tasks') <= 1
    \/ clearStorageLimitState
    \/ downloadAllRetry /\ Len(tasks') <= 1
    \/ NextStore
    \/ NextEvict

SpecGovern == Init /\ [][NextGovern]_vars

\* The life of the image nodes: batches confirmed, results and errors reported.
NextImages ==
    \/ \E config \in Drafts \cup {NULL} : setPreviewConfig(config)
    \/ confirmConfig
    \/ \E imageId \in ImageIdInputs : \E blobId \in BlobRefs(imageId) :
          updateImageGenerated(imageId, "url", "1.0s", blobId)
    \/ \E imageId \in ImageIdInputs : updateImageError(imageId, "Failed to generate")

SpecImages == Init /\ [][NextImages]_vars

\* Configurations deleted while results are being stored, with IndexedDB
\* requests that may fail: the purge of deleteConfig next to concurrent stores.
\* Image nodes also get blob references whose blob is not in the cache; the
\* blobs stored are of the smallest size, so that several fit.
NextPurge ==
    \/ \E config \in CacheDrafts : setPreviewConfig(config)
    \/ confirmConfig
    \/ \E imageId \in ImageIdInputs : imageResult(imageId, 1)
    \/ NextStore
    \/ \E imageId \in ImageIdInputs :
          updateImageGenerated(imageId, "url", "1.0s", BlobIdOf(imageId))
    \/ \E configId \in ConfigIdInputs : deleteConfig(configId)
    \/ \E i \in DOMAIN tasks : deleteBlobs(i)

SpecPurge == InitFail /\ [][NextPurge]_vars

\* the drafts confirmed when every action of the graph store is exercised
FlowDrafts == {d \in Drafts : d.batchCount \in {1, 2}}

\* The actions of the graph store that write nodes, on one graph: confirmation,
\* drags, results and errors, loading for editing, deletion and clearing, one
\* purge at a time.
NextFlow ==
    \/ \E config \in FlowDrafts : setPreviewConfig(config)
    \/ confirmConfig
    \/ \E configId \in ConfigIdInputs : \E p \in DragPositions :
          updateConfigPosition(configId, p.x, p.y)
    \/ \E imageId \in ImageIdInputs :
          updateImageGenerated(imageId, "url", "1.0s", BlobIdOf(imageId))
    \/ \E imageId \in ImageIdInputs : updateImageError(imageId, "Failed to generate")
    \/ \E configId \in ConfigIdInputs : loadConfigForEditing(configId)
    \/ \E configId \in ConfigIdInputs : deleteConfig(configId) /\ Len(tasks') <= 1
    \/ clearAll /\ Len(tasks') <= 1
    \/ PurgeStep

SpecFlow == Init /\ [][NextFlow]_vars

\* The graph while no node is ever dragged: previews, confirmation, deletion.
NextNoDrag ==
    \/ \E config \in Drafts \cup {NULL} : setPreviewConfig(config)
    \/ confirmConfig
    \/ \E configId \in ConfigIdInputs : deleteConfig(configId)

SpecNoDrag == Init /\ [][NextNoDrag]_vars

\* Blobs read by the lightbox while their configuration is deleted: getBlob
\* next to the purge of deleteConfig, every request succeeding.
NextInterleave ==
    \/ \E config \in CacheDrafts : setPreviewConfig(config)
    \/ confirmConfig
    \/ \E imageId \in ImageIdInputs : imageResult(imageId, 1) /\ Len(tasks') <= 1
    \/ NextStore
    \/ \E imageId \in ImageIdInputs : setLightboxImage(imageId)
    \/ lightboxGetBlob
    \/ \E i \in DOMAIN tasks : getBlob_blob(i)
    \/ \E i \in DOMAIN tasks : getBlob_meta(i)
    \/ \E i \in DOMAIN tasks : getBlob_putMeta(i)
    \/ \E configId \in ConfigIdInputs : deleteConfig(configId)
    \/ \E i \in DOMAIN tasks : deleteBlobs(i)

SpecInterleave == Init /\ [][NextInterleave]_vars

\* The lightbox reading blobs back.
NextGet ==
    \/ \E imageId \in ImageIdInputs : setLightboxImage(imageId)
    \/ lightboxGetBlob
    \/ \E i \in DOMAIN tasks : getBlob_blob(i)
    \/ \E i \in DOMAIN tasks : getBlob_meta(i)
    \/ \E i \in DOMAIN tasks : getBlob_putMeta(i)

Next == NextLayout \/ NextGraph \/ NextEdit \/ NextCache \/ NextRace \/ NextGet

Spec == Init /\ [][Next]_vars


(***************************************************************************)
(* Properties.                                                             *)
(***************************************************************************)

\* C1: in every reachable state a metadata record with id k exists in the
\* meta store if and only if a binary with key k exists in the blobs store.
\* (SpecCache)  storeBlob writes the binary and the metadata in two
\* transactions, so the state between them has the binary alone.
C1_BinaryIffMeta ==
    DOMAIN blobs = DOMAIN meta

\* C2: whenever an image node has a blob reference, a metadata record with
\* that id exists in the blob cache.  (SpecCache)  The confirmed cleanup
\* evicts the entries of image nodes that are still in the graph.
C2_BlobReferenceResolves ==
    \A n \in Range(imageNodes) :
        n.data.imageBlobId # NULL => n.data.imageBlobId \in DOMAIN meta

\* C3: with blobs admitted only through storeBlobWithCleanup, the entry count
\* is at most MAX_IMAGES and the total stored size at most MAX_STORAGE_MB, for
\* any interleaving of concurrent callers.  (SpecRace)  Two callers that both
\* check before either stores are both admitted.
C3_CeilingsHold ==
    /\ MetaCount <= MAX_IMAGES
    /\ MetaTotalSize <= maxStorageBytes

\* C4: deleteConfig(c) on an existing configuration removes c and every image
\* node owned by c in one step, issues one cache deletion for exactly the blob
\* references those image nodes hold, and leaves every other node unchanged.
C4_DeleteConfigCascade ==
    [][ IF lastOp'.op = "deleteConfig"
        THEN LET c == lastOp'.arg
                 owned == {i \in DOMAIN imageNodes : imageNodes[i].data.configId = c}
                 refs == {imageNodes[i].data.imageBlobId : i \in owned} \ {NULL}
             IN FindConfig(c) # 0 =>
                /\ Range(configNodes') = {n \in Range(configNodes) : n.id # c}
                /\ Len(configNodes') = Len(configNodes) - 1
                /\ Range(imageNodes') =
                      {imageNodes[i] : i \in DOMAIN imageNodes \ owned}
                /\ Len(imageNodes') = Len(imageNodes) - Cardinality(owned)
                /\ Range(lastOp'.ret) = refs
                /\ IF refs = {}
                   THEN tasks' = tasks
                   ELSE /\ Len(tasks') = Len(tasks) + 1
                        /\ \A i \in DOMAIN tasks : tasks'[i] = tasks[i]
                        /\ tasks'[Len(tasks')].op = "deleteBlobs"
                        /\ Range(tasks'[Len(tasks')].ids) = refs
                /\ UNCHANGED <<blobs, meta>>
        ELSE TRUE ]_vars

\* C4 witness: a configuration whose image held a blob reference has just been
\* deleted, the purge of that reference is in flight, and another
\* configuration with an image holding a blob reference is still there.
C4_Witness ==
    /\ lastOp.op = "deleteConfig"
    /\ Len(lastOp.ret) > 0
    /\ \E i \in DOMAIN tasks : tasks[i].op = "deleteBlobs" /\ tasks[i].ids = lastOp.ret
    /\ configNodes # <<>>
    /\ \E n \in Range(imageNodes) : n.data.imageBlobId # NULL

\* C5: once no cache call is in flight, every cache entry (binary or metadata)
\* is referenced by some image node of the graph: deleteConfig leaves no
\* orphan, also when a store for one of its images was pending.  (SpecCache)
\* A store that completes after deleteConfig leaves its entry behind.
C5_NoOrphanWhenQuiescent ==
    tasks = <<>> =>
        \A k \in DOMAIN blobs \cup DOMAIN meta :
            \E n \in Range(imageNodes) : n.data.imageBlobId = k

\* C6: every configuration node owns exactly batchCount image nodes, and the
\* number of image nodes is the sum of the batch counts of the configurations.
C6_BatchComplete ==
    /\ \A c \in Range(configNodes) :
          Cardinality({i \in DOMAIN imageNodes : imageNodes[i].data.configId = c.id})
             = c.data.batchCount
    /\ Len(imageNodes) =
          Cardinality({p \in (DOMAIN configNodes) \X (1..MaxCounter) :
                          p[2] <= configNodes[p[1]].data.batchCount})

\* C6 witness: after a configuration with images holding blob references was
\* deleted, another one with images is still there.
C6_Witness ==
    /\ lastOp.op = "deleteConfig"
    /\ Len(lastOp.ret) > 0
    /\ \E c \in Range(configNodes) : c.data.batchCount >= 1

\* C7: confirmConfig on a preview with batch count n and seed s appends
\* exactly n image nodes, all owned by the returned configuration id, with the
\* preview's prompt, width and height, loading, the i-th one with seed s + i.
C7_ConfirmCreatesBatch ==
    [][ IF lastOp'.op = "confirmConfig"
        THEN IF lastOp'.arg = NULL THEN TRUE
             ELSE LET p == lastOp'.arg
                      n == p.batchCount
                      base == Len(imageNodes)
                  IN /\ p = previewConfig
                     /\ lastOp'.ret = configNodes'[Len(configNodes')].id
                     /\ \A j \in DOMAIN configNodes : configNodes'[j].id # lastOp'.ret
                     /\ Len(imageNodes') = base + n
                     /\ \A j \in 1..base : imageNodes'[j] = imageNodes[j]
                     /\ \A i \in 0..(n - 1) :
                           LET d == imageNodes'[base + 1 + i].data
                           IN /\ d.configId = lastOp'.ret
                              /\ d.prompt = p.prompt
                              /\ d.width = p.width
                              /\ d.height = p.height
                              /\ d.isLoading = TRUE
                              /\ d.seed = p.seed + i
        ELSE TRUE ]_vars

\* C7 witness: the preview with batch count 3 and seed 10 has just been
\* confirmed and its images have the seeds 10, 11, 12.
C7_Witness ==
    /\ lastOp.op = "confirmConfig"
    /\ lastOp.arg # NULL
    /\ Len(imageNodes) >= 3
    /\ LET base == Len(imageNodes) - 3
       IN /\ imageNodes[base + 1].data.seed = 10
          /\ imageNodes[base + 2].data.seed = 11
          /\ imageNodes[base + 3].data.seed = 12
          /\ imageNodes[base + 3].data.configId = lastOp.ret

\* C8: the k-th image node (0-based batch index) of a configuration c sits at
\* (c.x, c.y + 220 + k * 280), after confirmation and after any drags.
C8_RigidLayout ==
    \A c \in Range(configNodes) : \A n \in Range(imageNodes) :
        n.data.configId = c.id =>
            LET k == n.id[2] - c.id[2] - 1
            IN /\ n.position.x = c.position.x
               /\ n.position.y = c.position.y + 220 + k * 280

\* C8 witness: a configuration with a batch of at least two has been dragged
\* to (10, 20) while another configuration exists.
C8_Witness ==
    /\ lastOp.op = "updateConfigPosition"
    /\ Len(configNodes) = 2
    /\ \E c \in Range(configNodes) :
          /\ c.id = lastOp.arg[1]
          /\ c.position = [x |-> 10, y |-> 20]
          /\ c.data.batchCount >= 2

\* C9: confirmConfig places the new configuration node at
\* (100 + 350 * confirmedCount, 100), confirmedCount being the number of
\* configuration nodes just before the call.
C9_ConfirmPosition ==
    [][ IF lastOp'.op = "confirmConfig"
        THEN IF lastOp'.arg = NULL THEN TRUE
             ELSE /\ Len(configNodes') = Len(configNodes) + 1
                  /\ configNodes'[Len(configNodes')].position =
                        [x |-> 100 + 350 * Len(configNodes), y |-> 100]
        ELSE TRUE ]_vars

\* C9 witness: a configuration has just been confirmed into the second lane,
\* after an earlier one was deleted.
C9_Witness ==
    /\ lastOp.op = "confirmConfig"
    /\ lastOp.arg # NULL
    /\ Len(configNodes) = 2
    /\ configNodes[2].position = [x |-> 450, y |-> 100]
    /\ configNodes[2].id[2] > 1 + configNodes[1].data.batchCount + 1

\* C10: updateConfigPosition(c, x, y) on an existing configuration sets its
\* position to (x, y), translates the image nodes it owns by the same delta,
\* and leaves every other node and all node data unchanged; on an unknown id
\* the whole state is unchanged.
C10_UpdatePositionFrame ==
    [][ IF lastOp'.op = "updateConfigPosition"
        THEN LET c == lastOp'.arg[1]
                 x == lastOp'.arg[2]
                 y == lastOp'.arg[3]
             IN IF FindConfig(c) = 0
                THEN UNCHANGED <<graphVars, blobs, meta, tasks>>
                ELSE LET old == configNodes[FindConfig(c)].position
                     IN /\ DOMAIN configNodes' = DOMAIN configNodes
                        /\ \A i \in DOMAIN configNodes :
                              IF configNodes[i].id = c
                              THEN /\ configNodes'[i].position = [x |-> x, y |-> y]
                                   /\ configNodes'[i].id = c
                                   /\ configNodes'[i].data = configNodes[i].data
                              ELSE configNodes'[i] = configNodes[i]
                        /\ DOMAIN imageNodes' = DOMAIN imageNodes
                        /\ \A i \in DOMAIN imageNodes :
                              IF imageNodes[i].data.configId = c
                              THEN /\ imageNodes'[i].position =
                                         [x |-> imageNodes[i].position.x + (x - old.x),
                                          y |-> imageNodes[i].position.y + (y - old.y)]
                                   /\ imageNodes'[i].id = imageNodes[i].id
                                   /\ imageNodes'[i].data = imageNodes[i].data
                              ELSE imageNodes'[i] = imageNodes[i]
                        /\ UNCHANGED <<previewConfig, editingConfigId, isEditingModified,
                                       lightboxImageId, storageLimitState, nodeIdCounter,
                                       blobs, meta, tasks>>
        ELSE TRUE ]_vars

\* C10 witness: a configuration with two images has just been moved to
\* (10, 20), its images now at (10, 240) and (10, 520), beside another
\* configuration.
C10_Witness ==
    /\ lastOp.op = "updateConfigPosition"
    /\ lastOp.arg[2] = 10
    /\ lastOp.arg[3] = 20
    /\ Len(configNodes) = 2
    /\ \E c \in Range(configNodes) :
          /\ c.id = lastOp.arg[1]
          /\ c.data.batchCount = 2
          /\ \E n \in Range(imageNodes) :
                n.data.configId = c.id /\ n.position = [x |-> 10, y |-> 240]
          /\ \E n \in Range(imageNodes) :
                n.data.configId = c.id /\ n.position = [x |-> 10, y |-> 520]

\* C11: confirmConfig without a preview returns null and leaves the whole
\* store state unchanged; with a preview it returns the new configuration id,
\* a node with that id and isPreview = false is in configNodes, and the
\* preview is null afterwards.  In every state the preview, if any, is not
\* among the confirmed nodes and no confirmed node is flagged as a preview.
C11_ConfirmResult ==
    [][ /\ \A n \in Range(configNodes') :
              /\ n.data.isPreview = FALSE
              /\ IF previewConfig' = NULL THEN TRUE ELSE n.id # previewConfig'.id
        /\ IF lastOp'.op = "confirmConfig"
           THEN IF previewConfig = NULL
                THEN /\ lastOp'.ret = NULL
                     /\ UNCHANGED <<graphVars, blobs, meta, tasks>>
                ELSE /\ lastOp'.ret # NULL
                     /\ \A n \in Range(configNodes) : n.id # lastOp'.ret
                     /\ \E n \in Range(configNodes') :
                           /\ n.id = lastOp'.ret
                           /\ n.data.id = lastOp'.ret
                           /\ n.data.isPreview = FALSE
                     /\ previewConfig' = NULL
           ELSE TRUE ]_vars

\* C11 witness: confirmConfig has just returned null, with no preview, while
\* a confirmed configuration is being edited.
C11_Witness ==
    /\ lastOp.op = "confirmConfig"
    /\ lastOp.ret = NULL
    /\ previewConfig = NULL
    /\ editingConfigId # NULL
    /\ isEditingModified = TRUE
    /\ configNodes # <<>>

\* C12: deleteConfig on an id that names no configuration node leaves the
\* graph and the rest of the store unchanged and issues no cache deletion, so
\* the blob cache is unchanged.
C12_DeleteUnknownNoOp ==
    [][ IF lastOp'.op = "deleteConfig"
        THEN FindConfig(lastOp'.arg) = 0 =>
                /\ lastOp'.ret = <<>>
                /\ UNCHANGED <<graphVars, blobs, meta, tasks>>
        ELSE TRUE ]_vars

\* C12 witness: deleteConfig has just been called with an unknown id on a
\* graph that holds configurations and an image with a blob reference.
C12_Witness ==
    /\ lastOp.op = "deleteConfig"
    /\ \A n \in Range(configNodes) : n.id # lastOp.arg
    /\ Len(configNodes) = 2
    /\ \E n \in Range(imageNodes) : n.data.imageBlobId # NULL

\* C13: checkStorageLimit changes neither store and reports: cleanup needed
\* with reason 'count' whenever the entry count is >= MAX_IMAGES, whatever the
\* sizes; otherwise cleanup needed with reason 'size' whenever the stored
\* size plus the candidate's size is > MAX_STORAGE_MB; otherwise null, also
\* when the sum equals the ceiling.  (The step below is the one in which the
\* only call in flight, a storeBlobWithCleanup, finishes checkStorageLimit.)
C13_CheckLimitVerdict ==
    [][ IF /\ Len(tasks) = 1
           /\ tasks[1].op = "storeBlobWithCleanup"
           /\ tasks[1].pc \in {"getBlobCount", "getTotalStorageSize"}
           /\ lastOp'.op = "storeBlobWithCleanup"
        THEN /\ UNCHANGED <<blobs, meta>>
             /\ tasks[1].pc = "getTotalStorageSize" =>
                   IF MetaCount >= MAX_IMAGES
                   THEN /\ tasks' = <<>>
                        /\ storageLimitState' # NULL
                        /\ IF storageLimitState' = NULL THEN FALSE
                           ELSE /\ storageLimitState'.needsCleanup = TRUE
                                /\ storageLimitState'.reason = "count"
                   ELSE IF MetaTotalSize + tasks[1].size > MAX_STORAGE_MB
                   THEN /\ tasks' = <<>>
                        /\ IF storageLimitState' = NULL THEN FALSE
                           ELSE /\ storageLimitState'.needsCleanup = TRUE
                                /\ storageLimitState'.reason = "size"
                   ELSE /\ Len(tasks') = 1
                        /\ IF Len(tasks') = 1
                           THEN tasks'[1].pc = "storeBlob.putBlob"
                           ELSE FALSE
                        /\ UNCHANGED storageLimitState
        ELSE TRUE ]_vars

\* C13 witness: a store has just been refused with reason 'count' although
\* the candidate would not have fitted by size either.
C13_Witness ==
    /\ lastOp.op = "storeBlobWithCleanup"
    /\ tasks = <<>>
    /\ storageLimitState # NULL
    /\ lastOp.arg = BlobIdOf(storageLimitState.pendingImageId)
    /\ storageLimitState.reason = "count"
    /\ MetaCount >= MAX_IMAGES
    /\ MetaTotalSize + storageLimitState.pendingBlob > MAX_STORAGE_MB

\* C14: storeBlobWithCleanup writes nothing and returns 'cleanup_needed'
\* whenever checkStorageLimit reports that cleanup is needed (in particular
\* with MAX_IMAGES entries stored); otherwise it stores the blob with metadata
\* size = blob size and createdAt = lastAccessedAt = now.  (SpecCache; the
\* step is one of the only call in flight.)  storeBlob reads the clock twice,
\* and the two readings may differ.
C14_StoreWithAdmission ==
    [][ IF /\ Len(tasks) = 1
           /\ tasks[1].op = "storeBlobWithCleanup"
           /\ lastOp'.op = "storeBlobWithCleanup"
        THEN LET t == tasks[1] IN
             /\ t.pc \in {"getBlobCount", "getTotalStorageSize"} =>
                   /\ UNCHANGED <<blobs, meta>>
                   /\ (t.pc = "getTotalStorageSize" /\ MetaCount >= MAX_IMAGES) =>
                         (tasks' = <<>> /\ storageLimitState' # NULL)
             /\ (storageLimitState' # storageLimitState) =>
                   (tasks' = <<>> /\ t.pc = "getTotalStorageSize")
             /\ t.pc = "storeBlob.putBlob" =>
                   /\ blobs' = Put(blobs, t.id, t.size)
                   /\ UNCHANGED meta
             /\ t.pc = "storeBlob.putMeta" =>
                   /\ tasks' = <<>>
                   /\ UNCHANGED blobs
                   /\ t.id \in DOMAIN blobs
                   /\ DOMAIN meta' = DOMAIN meta \cup {t.id}
                   /\ \A k \in DOMAIN meta : k # t.id => meta'[k] = meta[k]
                   /\ meta'[t.id].id = t.id
                   /\ meta'[t.id].size = t.size
                   /\ meta'[t.id].lastAccessedAt = now'
                   /\ meta'[t.id].createdAt = meta'[t.id].lastAccessedAt
        ELSE TRUE ]_vars

\* C15: cleanupForNewBlob always removes the entry with the smallest
\* lastAccessedAt among those present, and nothing else changes the cache
\* while it runs, so the removed entries have non-decreasing lastAccessedAt;
\* it goes on exactly while count >= MAX_IMAGES or the stored size plus the
\* candidate's size is > MAX_STORAGE_MB, stops when the cache is empty, and
\* removes nothing when both ceilings are satisfied on entry.  (The steps are
\* those of the only call in flight, the confirmed cleanup.)
C15_EvictsOldestFirst ==
    [][ IF /\ Len(tasks) = 1
           /\ tasks[1].op = "confirmCleanup"
           /\ lastOp'.op = "confirmCleanup"
           /\ tasks[1].pc \in {"getBlobCount", "getTotalStorageSize",
                               "removeOldestBlob.openCursor",
                               "deleteBlob.blobs", "deleteBlob.meta"}
        THEN LET t == tasks[1] IN
             /\ Len(tasks') = 1
             /\ DOMAIN meta' \subseteq DOMAIN meta
             /\ DOMAIN blobs' \subseteq DOMAIN blobs
             /\ \A k \in DOMAIN meta' : meta'[k] = meta[k]
             /\ t.pc \in {"getBlobCount", "getTotalStorageSize"} =>
                   UNCHANGED <<blobs, meta>>
             /\ t.pc = "getTotalStorageSize" =>
                   tasks'[1].pc =
                      IF MetaCount < MAX_IMAGES
                            /\ MetaTotalSize + t.size <= MAX_STORAGE_MB
                      THEN "storeBlob.putBlob"
                      ELSE "removeOldestBlob.openCursor"
             /\ t.pc = "removeOldestBlob.openCursor" =>
                   /\ UNCHANGED <<blobs, meta>>
                   /\ IF DOMAIN meta = {}
                      THEN tasks'[1].pc = "storeBlob.putBlob"
                      ELSE /\ tasks'[1].pc = "deleteBlob.blobs"
                           /\ tasks'[1].oldestId \in DOMAIN meta
                           /\ \A j \in DOMAIN meta :
                                 meta[tasks'[1].oldestId].lastAccessedAt
                                    <= meta[j].lastAccessedAt
             /\ t.pc = "deleteBlob.blobs" =>
                   /\ DOMAIN blobs' = DOMAIN blobs \ {t.oldestId}
                   /\ UNCHANGED meta
             /\ t.pc = "deleteBlob.meta" =>
                   /\ DOMAIN meta' = DOMAIN meta \ {t.oldestId}
                   /\ UNCHANGED blobs
                   /\ tasks'[1].pc = "getBlobCount"
        ELSE TRUE ]_vars

\* C15 witness: the confirmed cleanup is about to delete the older of two
\* entries with different lastAccessedAt.
C15_Witness ==
    /\ Len(tasks) = 1
    /\ tasks[1].op = "confirmCleanup"
    /\ tasks[1].pc = "deleteBlob.blobs"
    /\ MetaCount = 2
    /\ \E k \in DOMAIN meta :
          /\ k # tasks[1].oldestId
          /\ meta[k].lastAccessedAt > meta[tasks[1].oldestId].lastAccessedAt

\* C16: when the ceilings cannot be satisfied even with every entry removed
\* (a candidate larger than the size ceiling), cleanupForNewBlob stops with
\* the cache empty and its result tells the caller that no room was made: it
\* returns true only if both ceilings are satisfied on return.  (SpecOversize;
\* the step is the one in which cleanupForNewBlob returns.)  It returns true
\* in every case.
C16_CleanupSignalsNoRoom ==
    [][ IF /\ Len(tasks) = 1
           /\ tasks[1].op = "confirmCleanup"
           /\ tasks[1].pc \in {"getTotalStorageSize", "removeOldestBlob.openCursor"}
           /\ Len(tasks') = 1
        THEN tasks'[1].pc = "storeBlob.putBlob" =>
                (lastOp'.ret = TRUE <=>
                    /\ MetaCount < MAX_IMAGES
                    /\ MetaTotalSize + tasks[1].size <= MAX_STORAGE_MB)
        ELSE TRUE ]_vars


\* C17: the cleanup loop of cleanupForNewBlob finishes after a number of
\* removal steps bounded by the number of entries present when it started,
\* whatever the cache content and the candidate size, also when the delete
\* of the oldest entry fails: at no moment has a cleanup in flight completed
\* more calls of removeOldestBlob than there were entries at its start.
C17_EvictionBounded ==
    \A i \in DOMAIN tasks :
        tasks[i].op = "confirmCleanup" => tasks[i].removals <= tasks[i].startCount

\* C18: getBlob on a present id returns the blob and sets the entry's
\* lastAccessedAt to the clock reading of the call, never below its previous
\* value, leaving size, createdAt, every other entry and the blobs untouched;
\* getBlob on an absent id returns null and modifies nothing.  Successive
\* calls, one in flight at a time, every request succeeding.
C18_GetBumpsAccessTime ==
    [][ /\ (Len(tasks) = 1 /\ tasks[1].pc = "getBlob.meta" /\ Len(tasks') = 1
                /\ lastOp'.op = "getBlob")
           => /\ tasks'[1].pc = "getBlob.putMeta"
              /\ tasks'[1].read.lastAccessedAt = now'
              /\ now' >= now
        /\ (Len(tasks) = 1 /\ tasks[1].op = "getBlob" /\ tasks' = <<>>)
           => LET id == tasks[1].id
              IN  /\ blobs' = blobs
                  /\ IF id \in DOMAIN blobs
                     THEN /\ lastOp'.ret = "blob"
                          /\ DOMAIN meta' = DOMAIN meta
                          /\ \A other \in DOMAIN meta \ {id} : meta'[other] = meta[other]
                          /\ id \in DOMAIN meta =>
                                /\ tasks[1].pc = "getBlob.putMeta"
                                /\ meta'[id].lastAccessedAt = tasks[1].read.lastAccessedAt
                                /\ meta'[id].lastAccessedAt >= meta[id].lastAccessedAt
                                /\ meta'[id].size = meta[id].size
                                /\ meta'[id].createdAt = meta[id].createdAt
                     ELSE /\ lastOp'.ret = "null"
                          /\ meta' = meta
      ]_vars

\* a getBlob has returned the blob of an entry and raised its lastAccessedAt
\* above the time it was stored
C18_Witness ==
    /\ lastOp.op = "getBlob"
    /\ tasks = <<>>
    /\ lastOp.ret = "blob"
    /\ lastOp.arg \in DOMAIN meta
    /\ meta[lastOp.arg].lastAccessedAt > meta[lastOp.arg].createdAt

\* C19: nothing is evicted without the user's confirmation.  A step that
\* removes an entry from the blobs or the meta store is a delete of
\* removeOldestBlob inside a confirmed cleanup; only a confirmed cleanup ever
\* stands in removeOldestBlob or its deleteBlob; checkStorageLimit, storeBlob
\* and storeBlobWithCleanup leave every existing key in place; cancelling,
\* download-all-then-retry and the arrival of a result leave both stores as
\* they are.
C19_NoEvictionWithoutConfirm ==
    [][ /\ ~(DOMAIN blobs \subseteq DOMAIN blobs' /\ DOMAIN meta \subseteq DOMAIN meta')
           => \E i \in DOMAIN tasks :
                 /\ tasks[i].op = "confirmCleanup"
                 /\ tasks[i].pc \in {"deleteBlob.blobs", "deleteBlob.meta"}
        /\ \A i \in DOMAIN tasks' :
              tasks'[i].pc \in {"removeOldestBlob.openCursor", "deleteBlob.blobs",
                                "deleteBlob.meta"}
              => tasks'[i].op = "confirmCleanup"
        /\ lastOp'.op \in {"clearStorageLimitState", "downloadAllRetry", "imageResult"}
           => blobs' = blobs /\ meta' = meta
      ]_vars

\* an admission refused on a full cache has returned, and every entry is
\* still there
C19_Witness ==
    /\ tasks = <<>>
    /\ lastOp.op = "storeBlobWithCleanup"
    /\ storageLimitState # NULL
    /\ storageLimitState.reason = "count"
    /\ MetaCount = MAX_IMAGES
    /\ DOMAIN blobs = DOMAIN meta

\* C20: from CleanupNeeded the confirm path first runs cleanupForNewBlob for
\* the pending blob's size, then stores the pending blob, then clears the
\* storage-limit state, in that order: it starts in the cleanup with the
\* pending size, never steps back from the two puts of storeBlob, reaches the store only when the ceilings
\* admit the pending blob or the cache is empty, writes nothing before that,
\* leaves the storage-limit state alone until it returns, and when it returns
\* the pending blob and its metadata are in the cache and the state is null.
\* One cache call in flight at a time, every request succeeding.
C20_ConfirmPathOrder ==
    [][ LET C20_Phase(pc) == IF pc = "storeBlob.putBlob" THEN 2
                             ELSE IF pc = "storeBlob.putMeta" THEN 3
                             ELSE 1
        IN
        /\ (tasks = <<>> /\ Len(tasks') = 1 /\ lastOp'.op = "confirmCleanup")
           => /\ storageLimitState # NULL
              /\ storageLimitState' = storageLimitState
              /\ tasks'[1].pc = "getBlobCount"
              /\ tasks'[1].size = storageLimitState.pendingBlob
              /\ tasks'[1].id = BlobIdOf(storageLimitState.pendingImageId)
        /\ (Len(tasks) = 1 /\ tasks[1].op = "confirmCleanup" /\ Len(tasks') = 1)
           => /\ C20_Phase(tasks'[1].pc) >= C20_Phase(tasks[1].pc)
              /\ tasks'[1].size = tasks[1].size
              /\ lastOp'.op = "confirmCleanup" => storageLimitState' = storageLimitState
              /\ C20_Phase(tasks'[1].pc) = 1
                    => DOMAIN blobs' \subseteq DOMAIN blobs /\ DOMAIN meta' \subseteq DOMAIN meta
              /\ (C20_Phase(tasks[1].pc) = 1 /\ C20_Phase(tasks'[1].pc) = 2)
                    => \/ DOMAIN meta = {}
                       \/ /\ MetaCount < MAX_IMAGES
                          /\ MetaTotalSize + tasks[1].size <= maxStorageBytes
        /\ (Len(tasks) = 1 /\ tasks[1].op = "confirmCleanup" /\ tasks' = <<>>)
           => /\ tasks[1].pc = "storeBlob.putMeta"
              /\ storageLimitState' = NULL
              /\ tasks[1].id \in DOMAIN blobs'
              /\ blobs'[tasks[1].id] = tasks[1].size
              /\ tasks[1].id \in DOMAIN meta'
              /\ meta'[tasks[1].id].size = tasks[1].size
      ]_vars

\* a confirmed cleanup has evicted, stored the pending blob and returned: the
\* blob is in the cache, the governor is idle and an older entry is gone
C20_Witness ==
    /\ tasks = <<>>
    /\ lastOp.op = "confirmCleanup"
    /\ lastOp.arg \in DOMAIN blobs
    /\ lastOp.arg \in DOMAIN meta
    /\ storageLimitState = NULL
    /\ \E n \in Range(imageNodes) :
          /\ n.data.imageBlobId # NULL
          /\ n.data.imageBlobId \notin DOMAIN blobs

\* C21: cancelling from CleanupNeeded discards the pending store and returns
\* the governor to idle with the blob cache exactly as it was: the cancel
\* clears the storage-limit state, leaves blobs, meta and the image nodes
\* unchanged and starts no cache call; and the discarded blob cannot be stored
\* later, because a store of a pending blob (confirm or download-all-then-
\* retry) starts only while the storage-limit state still holds that blob.
C21_CancelDiscards ==
    [][ /\ lastOp'.op = "clearStorageLimitState"
           => /\ storageLimitState' = NULL
              /\ blobs' = blobs
              /\ meta' = meta
              /\ tasks' = tasks
              /\ imageNodes' = imageNodes
        /\ (Len(tasks') > Len(tasks) /\ lastOp'.op # "imageResult")
           => /\ storageLimitState # NULL
              /\ tasks'[Len(tasks')].size = storageLimitState.pendingBlob
              /\ tasks'[Len(tasks')].img = storageLimitState.pendingImageId
      ]_vars

\* a refused store has been cancelled: the governor is idle, the cache still
\* holds its entries, and the image whose blob was discarded has no blob
C21_Witness ==
    /\ lastOp.op = "clearStorageLimitState"
    /\ lastOp.arg # NULL
    /\ storageLimitState = NULL
    /\ tasks = <<>>
    /\ MetaCount > 0
    /\ DOMAIN blobs = DOMAIN meta
    /\ BlobIdOf(lastOp.arg) \notin DOMAIN blobs

\* C22: clearAll empties the graph (no configuration node, no image node, no
\* preview, editing and lightbox selection cleared, id counter 0) and starts
\* clearAllBlobs; when clearAllBlobs has completed, the blobs store and the
\* meta store are both empty.  One cache call in flight at a time, every
\* request succeeding.
C22_ClearAllEmpties ==
    [][ /\ lastOp'.op = "clearAll"
           => /\ configNodes' = <<>>
              /\ imageNodes' = <<>>
              /\ previewConfig' = NULL
              /\ editingConfigId' = NULL
              /\ isEditingModified' = FALSE
              /\ lightboxImageId' = NULL
              /\ nodeIdCounter' = 0
              /\ Len(tasks') = Len(tasks) + 1
              /\ tasks'[Len(tasks')].op = "clearAllBlobs"
        /\ (Len(tasks) = 1 /\ tasks[1].op = "clearAllBlobs" /\ tasks' = <<>>)
           => /\ DOMAIN blobs' = {}
              /\ DOMAIN meta' = {}
      ]_vars

\* clearAll has emptied a graph whose images had blobs in the cache, and its
\* purge has cleared the blobs store and is about to clear the meta store
C22_Witness ==
    /\ Len(tasks) = 1
    /\ tasks[1].pc = "clearAllBlobs.meta"
    /\ DOMAIN blobs = {}
    /\ DOMAIN meta # {}
    /\ configNodes = <<>>
    /\ imageNodes = <<>>
    /\ nodeIdCounter = 0

\* C23: updateImageGenerated and updateImageError are terminal transitions of
\* one image node: a call changes at most the node with the given id, changes
\* nothing when no node has that id, takes a loading node to ready (url, blob
\* reference and duration set, loading cleared) or to error (error set,
\* loading cleared), leaves a node that is no longer loading as it is, and no
\* step ever sets a node back to loading.
C23_TerminalTransitions ==
    [][ /\ \A i \in DOMAIN imageNodes :
              (i \in DOMAIN imageNodes' /\ imageNodes'[i].id = imageNodes[i].id
               /\ ~imageNodes[i].data.isLoading)
              => ~imageNodes'[i].data.isLoading
        /\ lastOp'.op \in {"updateImageGenerated", "updateImageError"}
           => /\ DOMAIN imageNodes' = DOMAIN imageNodes
              /\ \A i \in DOMAIN imageNodes :
                    ~imageNodes[i].data.isLoading => imageNodes'[i] = imageNodes[i]
      ]_vars

\* C24: deleteBlobs has all-or-nothing visibility.  The step in which a
\* deleteBlobs call takes effect either removes the blob and the metadata of
\* every listed id, or changes neither store; ids that are not stored are
\* ignored; every other entry is left as it is; and no other step of the
\* call exists, so no concurrent caller sees some of the listed ids, or only
\* the blob or only the metadata of one, removed.
C24_DeleteBlobsAtomic ==
    [][ \A i \in DOMAIN tasks :
           (tasks[i].op = "deleteBlobs" /\ lastOp'.op = "deleteBlobs"
            /\ Len(tasks') < Len(tasks) /\ lastOp'.arg = tasks[i].ids
            /\ \A j \in DOMAIN tasks : (j # i /\ tasks[j].op = "deleteBlobs")
                                       => tasks[j].ids # tasks[i].ids)
           => LET ids == Range(tasks[i].ids)
              IN  \/ /\ blobs' = blobs
                     /\ meta' = meta
                  \/ /\ DOMAIN blobs' = DOMAIN blobs \ ids
                     /\ DOMAIN meta' = DOMAIN meta \ ids
                     /\ \A k \in DOMAIN blobs' : blobs'[k] = blobs[k]
                     /\ \A k \in DOMAIN meta' : meta'[k] = meta[k]
      ]_vars

\* a deleteBlobs listing several ids, some stored and some not, has removed
\* the stored ones, blob and metadata, while another cache call is in flight
C24_Witness ==
    /\ lastOp.op = "deleteBlobs"
    /\ Len(lastOp.arg) >= 2
    /\ lastOp.ret # {}
    /\ lastOp.ret # Range(lastOp.arg)
    /\ Range(lastOp.arg) \cap (DOMAIN blobs \cup DOMAIN meta) = {}
    /\ tasks # <<>>

\* C25: setPreviewConfig, loadConfigForEditing and clearEditing change only
\* the preview, the editing id and the editing-modified flag: configNodes,
\* imageNodes and nodeIdCounter (and the lightbox selection and the
\* storage-limit state) are the same before and after, for ids of nodes
\* present, for an id that names no node, and for any draft or null.
C25_TransientOnly ==
    [][ lastOp'.op \in {"setPreviewConfig", "loadConfigForEditing", "clearEditing"}
        => /\ configNodes' = configNodes
           /\ imageNodes' = imageNodes
           /\ nodeIdCounter' = nodeIdCounter
           /\ lightboxImageId' = lightboxImageId
           /\ storageLimitState' = storageLimitState
      ]_vars

\* a confirmed configuration has been loaded for editing, which discarded the
\* preview, and the graph still holds it with its images
C25_Witness ==
    /\ lastOp.op = "loadConfigForEditing"
    /\ lastOp.ret # NULL
    /\ editingConfigId = lastOp.arg
    /\ previewConfig = NULL
    /\ FindConfig(lastOp.arg) # 0
    /\ \E n \in Range(imageNodes) : n.data.configId = lastOp.arg

\* C26: the flattened node list is the configuration nodes followed by the
\* image nodes and, exactly when a preview exists, one node for the preview at
\* the next slot (100 + 350 * number of configuration nodes, 100); and
\* confirmConfig called in that state puts the new configuration node at the
\* position the list showed for the preview.
C26_FlattenedNodes ==
    [][ LET nodes == getAllNodes
            n == Len(configNodes) + Len(imageNodes)
        IN  /\ SubSeq(nodes, 1, Len(configNodes)) = configNodes
            /\ SubSeq(nodes, Len(configNodes) + 1, n) = imageNodes
            /\ Len(nodes) = n + (IF previewConfig # NULL THEN 1 ELSE 0)
            /\ previewConfig # NULL
               => /\ nodes[n + 1].id = previewConfig.id
                  /\ nodes[n + 1].data = previewConfig
                  /\ nodes[n + 1].position = [x |-> 100 + 350 * Len(configNodes), y |-> 100]
                  /\ (lastOp'.op = "confirmConfig" /\ Len(configNodes') = Len(configNodes) + 1)
                     => configNodes'[Len(configNodes')].position = nodes[n + 1].position
      ]_vars

\* a preview is shown next to a confirmed configuration with its images: the
\* list ends with the preview node in the second slot
C26_Witness ==
    /\ previewConfig # NULL
    /\ Len(configNodes) = 1
    /\ Len(imageNodes) > 0
    /\ Len(getAllNodes) = Len(imageNodes) + 2
    /\ getAllNodes[Len(getAllNodes)].position = [x |-> 450, y |-> 100]

\* C27: in every reachable state the configId of every image node is the id of
\* exactly one configuration node of the graph, and the edge list has exactly
\* one edge per image node, from its owner to it, so that the source and the
\* target of every edge are nodes of the graph.
C27_OwnersAndEdges ==
    LET edges == getAllEdges
        configIds == {n.id : n \in Range(configNodes)}
        imageIds == {n.id : n \in Range(imageNodes)}
    IN  /\ \A n \in Range(imageNodes) :
              Cardinality({i \in DOMAIN configNodes :
                              configNodes[i].id = n.data.configId}) = 1
        /\ Len(edges) = Len(imageNodes)
        /\ \A i \in DOMAIN imageNodes :
              /\ edges[i].source = imageNodes[i].data.configId
              /\ edges[i].target = imageNodes[i].id
        /\ \A i, j \in DOMAIN edges : edges[i].target = edges[j].target => i = j
        /\ \A e \in Range(edges) : e.source \in configIds /\ e.target \in imageIds

\* one of two configurations has been deleted with its images, and the other
\* still owns its images
C27_Witness ==
    /\ lastOp.op = "deleteConfig"
    /\ lastOp.arg # NodeId("config", 0)
    /\ FindConfig(lastOp.arg) = 0
    /\ Len(configNodes) = 1
    /\ Len(imageNodes) > 0
    /\ Len(getAllEdges) = Len(imageNodes)

\* C28: a configuration node is immutable once confirmed except for its
\* position, and an image node keeps its owner: no step changes the data (id,
\* prompt, width, height, batch count, seed, timestamp) of a configuration
\* node that exists before and after it, nor the configId, prompt, width,
\* height or seed of an image node that exists before and after it.
C28_ConfirmedImmutable ==
    [][ /\ \A c \in Range(configNodes) : \A d \in Range(configNodes') :
              d.id = c.id => d.data = c.data
        /\ \A n \in Range(imageNodes) : \A o \in Range(imageNodes') :
              o.id = n.id
              => /\ o.data.id = n.data.id
                 /\ o.data.configId = n.data.configId
                 /\ o.data.prompt = n.data.prompt
                 /\ o.data.width = n.data.width
                 /\ o.data.height = n.data.height
                 /\ o.data.seed = n.data.seed
      ]_vars

\* a configuration has been dragged away from its slot and one of its images
\* has received its result
C28_Witness ==
    \E c \in Range(configNodes) :
        /\ c.position.y # FIRST_CONFIG_Y
        /\ \E n \in Range(imageNodes) :
              /\ n.data.configId = c.id
              /\ ~n.data.isLoading
              /\ n.data.imageUrl # UNDEF

\* C29: the layout is a function of the graph content: as long as no
\* updateConfigPosition has been applied, the j-th configuration node present
\* (counted from 0) is at (100 + 350 * j, 100) and its images are beneath it
\* at (x, 100 + 220 + 280 * i), after deleteConfig as well as after
\* confirmConfig.
C29_LayoutFromContent ==
    \A j \in DOMAIN configNodes :
        /\ configNodes[j].position = [x |-> 100 + 350 * (j - 1), y |-> 100]
        /\ LET owned == SelectSeqBy(imageNodes,
                           {n \in Range(imageNodes) :
                               n.data.configId = configNodes[j].id})
           IN \A i \in DOMAIN owned :
                 owned[i].position = [x |-> 100 + 350 * (j - 1),
                                      y |-> 100 + 220 + 280 * (i - 1)]

\* C30: when the purge started by deleteConfig fails for some blob ids, the
\* deletions are independent and the graph nodes are removed regardless:
\* after deleteConfig the configuration and its image nodes are gone from the
\* graph whatever the purge does, and when the purge has run, the listed ids
\* still stored are at most those whose delete failed.
C30_PurgeIndependent ==
    [][ /\ lastOp'.op = "deleteConfig"
           => /\ \A n \in Range(configNodes') : n.id # lastOp'.arg
              /\ \A n \in Range(imageNodes') : n.data.configId # lastOp'.arg
        /\ (lastOp'.op = "deleteBlobs" /\ Len(tasks') < Len(tasks))
           => Cardinality(Range(lastOp'.arg) \cap DOMAIN blobs')
                 <= failuresLeft - failuresLeft'
      ]_vars

\* C31: whatever the interleaving of the cache calls of concurrent callers,
\* once all of them have completed a metadata record exists for an id if and
\* only if its blob exists; in particular getBlob never re-creates a record
\* that a concurrent delete has removed.
C31_PairedWhenQuiescent ==
    tasks = <<>> => \A k \in DOMAIN blobs \cup DOMAIN meta :
                       k \in DOMAIN blobs /\ k \in DOMAIN meta

\* C32: a failed store leaves the cache unchanged: when storeBlob returns null
\* because one of its puts failed, the cache holds neither the blob nor the
\* metadata of the id (no id is stored twice here, so neither was there
\* before the call); and a deleteBlob one of whose deletes failed leaves both
\* the blob and the metadata of the id in place.
C32_FailedStoreLeavesNothing ==
    [][ (Len(tasks) = 1 /\ failuresLeft' < failuresLeft)
        => /\ tasks[1].pc \in {"storeBlob.putBlob", "storeBlob.putMeta"}
              => /\ tasks' = <<>>
                 /\ tasks[1].id \notin DOMAIN blobs'
                 /\ tasks[1].id \notin DOMAIN meta'
           /\ tasks[1].pc \in {"deleteBlob.blobs", "deleteBlob.meta"}
              => /\ tasks[1].oldestId \in DOMAIN blobs'
                 /\ tasks[1].oldestId \in DOMAIN meta'
      ]_vars

\* C33: admission is never granted on a failed read of the metadata: when a
\* call leaves the read of the count and of the total size to write its blob
\* (checkStorageLimit found no cleanup needed, or cleanupForNewBlob left its
\* loop), the cache as it is stored is below both ceilings for that blob.
C33_NoAdmissionOnFailedRead ==
    [][ (/\ Len(tasks) = 1
         /\ tasks[1].pc = "getTotalStorageSize"
         /\ Len(tasks') = 1
         /\ tasks'[1].pc = "storeBlob.putBlob")
        => ~CleanupLoopCondition(MetaCount, MetaTotalSize, tasks[1].size)
      ]_vars

\* C34: a store attempt that failed admission stays tracked until it is
\* resolved: while the storage-limit state is set, no step replaces its
\* pending image id and pending blob by those of another attempt.
C34_PendingRetained ==
    [][ (storageLimitState # NULL /\ storageLimitState' # NULL)
        => /\ storageLimitState'.pendingImageId = storageLimitState.pendingImageId
           /\ storageLimitState'.pendingBlob = storageLimitState.pendingBlob
      ]_vars

\* C35: while the storage-limit state is set, its pending image id is the id
\* of an image node of the graph.
C35_PendingNamesImageNode ==
    storageLimitState # NULL
    => \E n \in Range(imageNodes) : n.id = storageLimitState.pendingImageId

\* C36: after every step the ids of the configuration nodes and of the image
\* nodes are pairwise distinct and none has a numeric suffix above
\* nodeIdCounter; the ids confirmConfig gives to the nodes it appends are ids
\* of no node that was in the graph before.
C36_IdsDistinct ==
    [][ /\ \A i, j \in DOMAIN configNodes' :
              i # j => configNodes'[i].id # configNodes'[j].id
        /\ \A i, j \in DOMAIN imageNodes' :
              i # j => imageNodes'[i].id # imageNodes'[j].id
        /\ \A i \in DOMAIN configNodes' : \A j \in DOMAIN imageNodes' :
              configNodes'[i].id # imageNodes'[j].id
        /\ \A i \in DOMAIN configNodes' : configNodes'[i].id[2] <= nodeIdCounter'
        /\ \A j \in DOMAIN imageNodes' : imageNodes'[j].id[2] <= nodeIdCounter'
        /\ IF lastOp'.op = "confirmConfig"
           THEN /\ \A k \in (Len(configNodes) + 1)..Len(configNodes') :
                      /\ configNodes'[k].id[2] > nodeIdCounter
                      /\ \A i \in DOMAIN configNodes :
                            configNodes[i].id # configNodes'[k].id
                /\ \A k \in (Len(imageNodes) + 1)..Len(imageNodes') :
                      /\ imageNodes'[k].id[2] > nodeIdCounter
                      /\ \A j \in DOMAIN imageNodes :
                            imageNodes[j].id # imageNodes'[k].id
           ELSE TRUE
      ]_vars

\* C36 witness: config-1 has been deleted and the next confirmation has just
\* appended config-2 with its image; the id config-1 is not given again.
C36_Witness ==
    /\ lastOp.op = "confirmConfig"
    /\ Len(configNodes) = 1
    /\ configNodes[1].id = NodeId("config", 2)
    /\ Len(imageNodes) = 1
    /\ imageNodes[1].id = NodeId("image", 3)
    /\ nodeIdCounter = 3

\* C37: as long as no updateConfigPosition has been applied, no two
\* configuration nodes have the same position, no two image nodes have the
\* same position, and the slot of a preview being shown
\* (getNextConfigPosition) is the position of no configuration node.
C37_NoOverlap ==
    /\ \A i, j \in DOMAIN configNodes :
          i # j => configNodes[i].position # configNodes[j].position
    /\ \A i, j \in DOMAIN imageNodes :
          i # j => imageNodes[i].position # imageNodes[j].position
    /\ previewConfig # NULL
       => \A i \in DOMAIN configNodes :
             configNodes[i].position # getNextConfigPosition

\* C38: editingConfigId, when it is set, is the id of a configuration node of
\* the graph.
C38_EditingNamesConfig ==
    editingConfigId # NULL
    => \E n \in Range(configNodes) : n.id = editingConfigId

====
